---- MODULE Spec2Model ----
(***************************************************************************)
(* A model of task_cli.py: the TaskTracker store (an insertion-ordered     *)
(* dict of tasks kept in memory and rewritten to tasks.json after every    *)
(* successful mutation) and the command-line entry point main().           *)
(*                                                                         *)
(* A Python dict is a sequence of entries [k |-> key, v |-> value] in      *)
(* insertion order.  A key is [t |-> "int", n |-> 3] for the int 3 and     *)
(* [t |-> "str", n |-> 3] for the string "3": Python never finds one when  *)
(* asked for the other, and json.dump writes every key as a string.        *)
(***************************************************************************)
EXTENDS Integers, Sequences, FiniteSets, TLC

\* Bound of the model: add_task is not called once the next id would exceed it.
MaxId == 2

VARIABLES
    file,      \* tasks.json: [kind |-> "absent" | "invalid" | "undecodable" | "json",
               \*              content |-> entries]
    tasks,     \* self.tasks of the live TaskTracker (<<>> when there is none)
    pc,        \* "none": no TaskTracker object exists; "live": one was constructed;
               \* "saving": a method has changed self.tasks and is about to call
               \* save_tasks; "writing": save_tasks has opened the file
    clock,     \* the last value datetime.now() returned
    maxReturned, \* history: the greatest id add_task has returned on the live
               \* TaskTracker, 0 when it has returned none
    last,      \* the last call made: its arguments and its outcome
    peer       \* a second process on the same tasks.json:
               \* [pc |-> "none" | "loaded" | "done", tasks |-> its self.tasks,
               \*  raced |-> it loaded while the first process had loaded
               \*            and not yet saved]

vars == <<file, tasks, pc, clock, maxReturned, last, peer>>

----------------------------------------------------------------------------
\* Values

Descriptions == {"a", "b"}
ValidStatuses == {"todo", "in-progress", "done"}
StatusArgs == ValidStatuses \cup {"bogus"}
IdArgs == 1 .. MaxId
\* The values datetime.now().isoformat() yields, in the order of time
Instants == {0, 1}

IntKey(n) == [t |-> "int", n |-> n]
StrKey(n) == [t |-> "str", n |-> n]

EmptyDict == << >>

\* k in d
Has(d, k) == \E i \in DOMAIN d : d[i].k = k

IndexOf(d, k) == CHOOSE i \in DOMAIN d : d[i].k = k

\* d[k]
Get(d, k) == d[IndexOf(d, k)].v

\* d[k] = v : an existing key keeps its place, a new key goes last
Put(d, k, v) ==
    IF Has(d, k)
    THEN [d EXCEPT ![IndexOf(d, k)] = [k |-> k, v |-> v]]
    ELSE Append(d, [k |-> k, v |-> v])

\* del d[k]
Del(d, k) == SelectSeq(d, LAMBDA e : e.k # k)

\* d.values(), in order and as a set
Values(d) == [i \in DOMAIN d |-> d[i].v]
ValueSet(d) == {d[i].v : i \in DOMAIN d}

----------------------------------------------------------------------------
\* The persisted file

AbsentFile == [kind |-> "absent", content |-> << >>]
\* Text that json.load rejects (JSONDecodeError): empty, truncated or other text
InvalidFile == [kind |-> "invalid", content |-> << >>]
\* Bytes that are not text in the encoding open(TASKS_FILE, 'r') reads with
UndecodableFile == [kind |-> "undecodable", content |-> << >>]
JsonFile(c) == [kind |-> "json", content |-> c]

\* json.dump writes an int key as its decimal string; a string key stays
KeyToJson(k) == StrKey(k.n)

\* json.dump(d): the entries in order, every key a string
JsonDump(d) == [i \in DOMAIN d |-> [k |-> KeyToJson(d[i].k), v |-> d[i].v]]

\* json.load: the object's members in order; a repeated key keeps the last value
RECURSIVE JsonLoadFrom(_, _)
JsonLoadFrom(c, acc) ==
    IF c = << >> THEN acc
    ELSE JsonLoadFrom(Tail(c), Put(acc, Head(c).k, Head(c).v))

JsonLoad(c) == JsonLoadFrom(c, EmptyDict)

\* json.load(f) reads the file as text first: bytes that do not decode raise
\* UnicodeDecodeError, which load_tasks does not catch
load_raises(f) == f.kind = "undecodable"

\* TaskTracker.load_tasks, when it returns: the dict read from the file, {}
\* when the file is absent or is not JSON
load_tasks(f) ==
    IF f.kind = "json" THEN JsonLoad(f.content) ELSE EmptyDict

\* TaskTracker.save_tasks: the file after open(TASKS_FILE, 'w') and json.dump
save_tasks(d) == JsonFile(JsonDump(d))

\* A variant of open_w that leaves the content in place (mode 'r+')
open_keep(f) == f

\* open(TASKS_FILE, 'w') alone: the file exists and is empty.  Until json.dump
\* has written the last brace the content is a proper prefix of the JSON
\* text, which json.load rejects like the empty file.
open_w(f) == InvalidFile

----------------------------------------------------------------------------
\* TaskTracker's methods, as functions of the dict they act on.  Each yields
\*   [tasks |-> the dict afterwards, saved |-> whether save_tasks ran,
\*    exc |-> "none" or the exception raised, retId, retOk |-> the value returned]

RECURSIVE MaxN(_)
MaxN(S) ==
    IF S = {} THEN 0
    ELSE LET x == CHOOSE y \in S : TRUE
             m == MaxN(S \ {x})
         IN IF x > m THEN x ELSE m

\* A variant of get_next_id that counts the tasks: len(self.tasks) + 1
get_next_id_count(d) == [exc |-> "none", val |-> Len(d) + 1]

\* max(self.tasks.keys(), default=0) + 1.  Python orders ints with ints; with
\* a string among the keys either max() cannot compare the keys or its result
\* is a string that + 1 rejects: TypeError both ways.
get_next_id(d) ==
    IF \A i \in DOMAIN d : d[i].k.t = "int"
    THEN [exc |-> "none", val |-> MaxN({d[i].k.n : i \in DOMAIN d}) + 1]
    ELSE [exc |-> "TypeError", val |-> 0]

NewTask(task_id, description, now) ==
    [id |-> task_id, description |-> description, status |-> "todo",
     createdAt |-> now, updatedAt |-> now]

add_task(d, description, now) ==
    LET nid == get_next_id(d) IN
    IF nid.exc # "none"
    THEN [tasks |-> d, saved |-> FALSE, exc |-> nid.exc, retId |-> 0, retOk |-> FALSE]
    ELSE [tasks |-> Put(d, IntKey(nid.val), NewTask(nid.val, description, now)),
          saved |-> TRUE, exc |-> "none", retId |-> nid.val, retOk |-> TRUE]

NotFound(d) ==
    [tasks |-> d, saved |-> FALSE, exc |-> "none", retId |-> 0, retOk |-> FALSE]

Done(d) ==
    [tasks |-> d, saved |-> TRUE, exc |-> "none", retId |-> 0, retOk |-> TRUE]

\* A variant of update_task that returns True without calling save_tasks
update_task_unsaved(d, task_id, description, now) ==
    IF ~Has(d, IntKey(task_id)) THEN NotFound(d)
    ELSE LET old == Get(d, IntKey(task_id)) IN
         [Done(Put(d, IntKey(task_id),
                   [old EXCEPT !.description = description, !.updatedAt = now]))
             EXCEPT !.saved = FALSE]

update_task(d, task_id, description, now) ==
    IF ~Has(d, IntKey(task_id)) THEN NotFound(d)
    ELSE LET old == Get(d, IntKey(task_id)) IN
         Done(Put(d, IntKey(task_id),
                  [old EXCEPT !.description = description, !.updatedAt = now]))

\* A variant of delete_task without the membership test:
\* self.tasks.pop(task_id, None), save_tasks, return True
delete_task_unchecked(d, task_id) == Done(Del(d, IntKey(task_id)))

delete_task(d, task_id) ==
    IF ~Has(d, IntKey(task_id)) THEN NotFound(d)
    ELSE Done(Del(d, IntKey(task_id)))

\* A variant of mark_task_status that leaves updatedAt as it was
mark_task_status_stale(d, task_id, status, now) ==
    IF ~Has(d, IntKey(task_id)) \/ status \notin {"todo", "in-progress", "done"}
    THEN NotFound(d)
    ELSE LET old == Get(d, IntKey(task_id)) IN
         Done(Put(d, IntKey(task_id), [old EXCEPT !.status = status]))

\* A variant of mark_task_status that accepts any status string
mark_task_status_any(d, task_id, status, now) ==
    IF ~Has(d, IntKey(task_id)) THEN NotFound(d)
    ELSE LET old == Get(d, IntKey(task_id)) IN
         Done(Put(d, IntKey(task_id),
                  [old EXCEPT !.status = status, !.updatedAt = now]))

mark_task_status(d, task_id, status, now) ==
    IF ~Has(d, IntKey(task_id)) \/ status \notin {"todo", "in-progress", "done"}
    THEN NotFound(d)
    ELSE LET old == Get(d, IntKey(task_id)) IN
         Done(Put(d, IntKey(task_id),
                  [old EXCEPT !.status = status, !.updatedAt = now]))

\* The optional status argument of list_tasks
NoFilter == [some |-> FALSE, s |-> ""]
Filter(s) == [some |-> TRUE, s |-> s]
FilterArgs == {NoFilter} \cup {Filter(s) : s \in StatusArgs}

\* A variant of list_tasks that ignores the status argument
list_tasks_all(d, status) == Values(d)

list_tasks(d, status) ==
    IF ~status.some THEN Values(d)
    ELSE SelectSeq(Values(d), LAMBDA task : task.status = status.s)

\* The file after a method: rewritten whole when save_tasks ran
\* A variant of FileAfter that keeps the entries of the file whose key the
\* written collection does not have
FileAfter_merge(f, r) ==
    IF r.saved
    THEN JsonFile(SelectSeq(f.content,
                            LAMBDA e : ~Has(JsonDump(r.tasks), e.k))
                  \o JsonDump(r.tasks))
    ELSE f

FileAfter(f, r) == IF r.saved THEN save_tasks(r.tasks) ELSE f

\* The values datetime.now() may return: the clock does not go backwards
Nows == {n \in Instants : n >= clock}

\* The clock readings of a call: one for each value now() may return when the
\* call reaches datetime.now(), none to choose from when it does not
Readings(reaches) == IF reaches THEN Nows ELSE {clock}

----------------------------------------------------------------------------
\* main(): one command-line invocation, from sys.argv to the exit status.
\* argv is sys.argv, the script's name first: sys.argv[k] is argv[k + 1].

DecimalStrings == <<"1", "2", "3", "4", "5", "6", "7", "8", "9">>

\* int(s): the integer a decimal string denotes, ValueError for other text
int(s) ==
    IF \E n \in DOMAIN DecimalStrings : DecimalStrings[n] = s
    THEN [exc |-> "none",
          val |-> CHOOSE n \in DOMAIN DecimalStrings : DecimalStrings[n] = s]
    ELSE [exc |-> "ValueError", val |-> 0]

\* str.lower() on the command words used here
lower(s) == IF s = "ADD" THEN "add" ELSE IF s = "List" THEN "list" ELSE s

Script == "task_cli.py"
IdTokens == {DecimalStrings[n] : n \in IdArgs} \cup {"x"}
MarkCommands == {"mark-in-progress", "mark-done"}

Argvs ==
    {<<Script>>, <<Script, "frob">>, <<Script, "list">>, <<Script, "List">>}
    \cup {<<Script, c>> : c \in {"add", "update", "delete"} \cup MarkCommands}
    \cup {<<Script, c, d>> : c \in {"add", "ADD"}, d \in Descriptions}
    \cup {<<Script, "list", s>> : s \in StatusArgs}
    \cup {<<Script, "update", t>> : t \in IdTokens}
    \cup {<<Script, "update", t, d>> : t \in IdTokens, d \in Descriptions}
    \cup {<<Script, c, t>> : c \in {"delete"} \cup MarkCommands, t \in IdTokens}

\* What main() leaves behind: the file, the exit status, the line printed
\* (msg), and the store method's outcome when one was called
Ended(f, exit, msg) ==
    [file |-> f, exit |-> exit, msg |-> msg, exc |-> "none", id |-> 0,
     retId |-> 0, retOk |-> FALSE, saved |-> FALSE, out |-> << >>]

Called(f, r, id, msg) ==
    [file |-> FileAfter(f, r), exit |-> 0, msg |-> msg, exc |-> "none", id |-> id,
     retId |-> r.retId, retOk |-> r.retOk, saved |-> r.saved, out |-> << >>]

\* The store method a command with a task id calls
StoreCall(tracker, command, task_id, argv, now) ==
    CASE command = "update" -> update_task(tracker, task_id, argv[4], now)
      [] command = "delete" -> delete_task(tracker, task_id)
      [] command = "mark-in-progress" ->
            mark_task_status(tracker, task_id, "in-progress", now)
      [] command = "mark-done" -> mark_task_status(tracker, task_id, "done", now)

\* len(sys.argv) such a command needs, and the line it prints for True
ArgsNeeded(command) == IF command = "update" THEN 4 ELSE 3
DoneMsg(command) ==
    CASE command = "update" -> "updated"
      [] command = "delete" -> "deleted"
      [] OTHER -> "marked"

\* A variant of these branches that ends with sys.exit(1) after printing
\* "not found"
WithId_strict(f, tracker, command, argv, now) ==
    IF Len(argv) < ArgsNeeded(command) THEN Ended(f, 1, "required")
    ELSE LET task_id == int(argv[3]) IN
         IF task_id.exc # "none"
         THEN [Ended(f, 1, "invalid input") EXCEPT !.exc = task_id.exc]
         ELSE LET r == StoreCall(tracker, command, task_id.val, argv, now) IN
              IF r.retOk
              THEN Called(f, r, task_id.val, DoneMsg(command))
              ELSE [Called(f, r, task_id.val, "not found") EXCEPT !.exit = 1]

\* The branches of main() that take a task id: the length check, int(), the
\* method, and the line printed for True and for False
WithId(f, tracker, command, argv, now) ==
    IF Len(argv) < ArgsNeeded(command) THEN Ended(f, 1, "required")
    ELSE LET task_id == int(argv[3]) IN
         IF task_id.exc # "none"
         THEN [Ended(f, 1, "invalid input") EXCEPT !.exc = task_id.exc]
         ELSE LET r == StoreCall(tracker, command, task_id.val, argv, now) IN
              Called(f, r, task_id.val,
                     IF r.retOk THEN DoneMsg(command) ELSE "not found")

main(f, argv, now) ==
    IF Len(argv) < 2 THEN Ended(f, 1, "usage")
    ELSE IF load_raises(f)
    THEN [Ended(f, 1, "traceback") EXCEPT !.exc = "UnicodeDecodeError"]
    ELSE
    LET tracker == load_tasks(f)
        command == lower(argv[2])
    IN
    CASE command = "add" ->
            IF Len(argv) < 3 THEN Ended(f, 1, "required")
            ELSE LET r == add_task(tracker, argv[3], now) IN
                 IF r.exc # "none"
                 THEN [Ended(f, 1, "error") EXCEPT !.exc = r.exc]
                 ELSE Called(f, r, 0, "added")
      [] command \in {"update", "delete"} \cup MarkCommands ->
            WithId(f, tracker, command, argv, now)
      [] command = "list" ->
            LET listed == list_tasks(tracker,
                                     IF Len(argv) > 2 THEN Filter(argv[3])
                                     ELSE NoFilter)
            IN [Ended(f, 0, IF listed = << >> THEN "no tasks" ELSE "listed")
                   EXCEPT !.out = listed]
      [] OTHER -> Ended(f, 1, "unknown command")

----------------------------------------------------------------------------
\* The record of the last call

\* before: the file as it was when the call began, recorded for the calls
\* whose save_tasks is followed step by step
NoFile == [kind |-> "n/a", content |-> << >>]

Call(op, id, arg) ==
    [op |-> op, id |-> id, arg |-> arg, argv |-> << >>, exc |-> "none",
     retId |-> 0, retOk |-> FALSE, saved |-> FALSE, out |-> << >>,
     exit |-> -1, msg |-> "", before |-> NoFile]

Outcome(op, id, arg, r) ==
    [Call(op, id, arg) EXCEPT !.exc = r.exc, !.retId = r.retId,
                              !.retOk = r.retOk, !.saved = r.saved]

----------------------------------------------------------------------------
\* The state before any process has run: no tracker, and a tasks.json that is
\* absent, is not JSON, is not text, or holds the empty object

NoPeer == [pc |-> "none", tasks |-> EmptyDict, raced |-> FALSE]

Init ==
    /\ file \in {AbsentFile, InvalidFile, UndecodableFile, JsonFile(<< >>)}
    /\ tasks = EmptyDict
    /\ pc = "none"
    /\ clock = 0
    /\ maxReturned = 0
    /\ last = Call("init", 0, "")
    /\ peer = NoPeer

\* TaskTracker(): __init__ sets self.tasks = {} and calls load_tasks; when
\* load_tasks raises, the constructor raises and there is no tracker
NewTracker ==
    /\ pc = "none"
    /\ IF load_raises(file)
       THEN /\ pc' = "none"
            /\ tasks' = EmptyDict
            /\ last' = [Call("new", 0, "") EXCEPT !.exc = "UnicodeDecodeError"]
       ELSE /\ pc' = "live"
            /\ tasks' = load_tasks(file)
            /\ last' = Call("new", 0, "")
    /\ maxReturned' = 0
    /\ UNCHANGED <<file, clock>>
    /\ UNCHANGED peer

\* The process that holds the tracker ends: its memory is gone, the file stays
Exit ==
    /\ pc = "live"
    /\ pc' = "none"
    /\ tasks' = EmptyDict
    /\ maxReturned' = 0
    /\ last' = Call("exit", 0, "")
    /\ UNCHANGED <<file, clock>>
    /\ UNCHANGED peer

AddTask(description) ==
    /\ pc = "live"
    /\ get_next_id(tasks).val <= MaxId
    /\ \E now \in Readings(get_next_id(tasks).exc = "none") :
          LET r == add_task(tasks, description, now) IN
          /\ tasks' = r.tasks
          /\ file' = FileAfter(file, r)
          /\ clock' = now
          /\ maxReturned' = IF r.exc = "none" /\ r.retId > maxReturned
                            THEN r.retId ELSE maxReturned
          /\ last' = Outcome("add", 0, description, r)
    /\ UNCHANGED pc
    /\ UNCHANGED peer

UpdateTask(task_id, description) ==
    /\ pc = "live"
    /\ \E now \in Readings(update_task(tasks, task_id, description, clock).retOk) :
          LET r == update_task(tasks, task_id, description, now) IN
          /\ tasks' = r.tasks
          /\ file' = FileAfter(file, r)
          /\ clock' = now
          /\ last' = Outcome("update", task_id, description, r)
    /\ UNCHANGED <<pc, maxReturned>>
    /\ UNCHANGED peer

DeleteTask(task_id) ==
    /\ pc = "live"
    /\ LET r == delete_task(tasks, task_id) IN
          /\ tasks' = r.tasks
          /\ file' = FileAfter(file, r)
          /\ last' = Outcome("delete", task_id, "", r)
    /\ UNCHANGED <<pc, clock, maxReturned>>
    /\ UNCHANGED peer

MarkTaskStatus(task_id, status) ==
    /\ pc = "live"
    /\ \E now \in Readings(mark_task_status(tasks, task_id, status, clock).retOk) :
          LET r == mark_task_status(tasks, task_id, status, now) IN
          /\ tasks' = r.tasks
          /\ file' = FileAfter(file, r)
          /\ clock' = now
          /\ last' = Outcome("mark", task_id, status, r)
    /\ UNCHANGED <<pc, maxReturned>>
    /\ UNCHANGED peer

\* main() reaches datetime.now() when add, update or a mark command succeeds
ReadsClock(m) == m.msg \in {"added", "updated", "marked"}

\* One run of the command line while no other tracker is alive: the process
\* loads the file, serves the command and ends
Main(argv) ==
    /\ pc = "none"
    /\ \E now \in Readings(ReadsClock(main(file, argv, clock))) :
          LET m == main(file, argv, now) IN
          /\ m.retId <= MaxId
          /\ file' = m.file
          /\ clock' = now
          /\ last' = [Call("main", m.id, "") EXCEPT
                         !.argv = argv, !.exc = m.exc, !.retId = m.retId,
                         !.retOk = m.retOk, !.saved = m.saved, !.out = m.out,
                         !.exit = m.exit, !.msg = m.msg]
    /\ UNCHANGED <<tasks, pc, maxReturned>>
    /\ UNCHANGED peer

ListTasks(status) ==
    /\ pc = "live"
    /\ last' = [Call("list", 0, status.s) EXCEPT
                   !.out = list_tasks(tasks, status), !.retOk = status.some]
    /\ UNCHANGED <<file, tasks, pc, clock, maxReturned>>
    /\ UNCHANGED peer

Next ==
    \/ NewTracker
    \/ Exit
    \/ \E d \in Descriptions : AddTask(d)
    \/ \E i \in IdArgs, d \in Descriptions : UpdateTask(i, d)
    \/ \E i \in IdArgs : DeleteTask(i)
    \/ \E i \in IdArgs, s \in StatusArgs : MarkTaskStatus(i, s)
    \/ \E f \in FilterArgs : ListTasks(f)

\* The store as a component: a tracker is constructed, its methods are called
\* any number of times, the process ends, and the next one loads the file
Spec == Init /\ [][Next]_vars

NextCli == \E argv \in Argvs : Main(argv)

\* The program as shipped: every process is one run of main()
SpecCli == Init /\ [][NextCli]_vars

----------------------------------------------------------------------------
\* save_tasks step by step: a mutating method changes self.tasks, then
\* save_tasks opens the file for writing, then json.dump writes it; the
\* process can stop between any two of these.

Method(d, op, id, arg, now) ==
    CASE op = "add" -> add_task(d, arg, now)
      [] op = "update" -> update_task(d, id, arg, now)
      [] op = "delete" -> delete_task(d, id)
      [] op = "mark" -> mark_task_status(d, id, arg, now)

MethodCalls ==
    {[op |-> "add", id |-> 0, arg |-> d] : d \in Descriptions}
    \cup {[op |-> "update", id |-> i, arg |-> d] : i \in IdArgs, d \in Descriptions}
    \cup {[op |-> "delete", id |-> i, arg |-> ""] : i \in IdArgs}
    \cup {[op |-> "mark", id |-> i, arg |-> st] : i \in IdArgs, st \in StatusArgs}

\* A method runs up to its call of save_tasks: self.tasks is changed, the
\* file is not yet touched.  (A call that returns False or raises before
\* save_tasks does not get here.)
MethodReachesSave(c) ==
    /\ pc = "live"
    /\ Method(tasks, c.op, c.id, c.arg, clock).saved
    /\ Method(tasks, c.op, c.id, c.arg, clock).retId <= MaxId
    /\ \E now \in Readings(c.op # "delete") :
          LET r == Method(tasks, c.op, c.id, c.arg, now) IN
          /\ tasks' = r.tasks
          /\ clock' = now
          /\ maxReturned' = IF r.retId > maxReturned THEN r.retId ELSE maxReturned
          /\ last' = [Call(c.op, c.id, c.arg) EXCEPT
                         !.retId = r.retId, !.before = file]
    /\ pc' = "saving"
    /\ UNCHANGED file
    /\ UNCHANGED peer

\* save_tasks: open(TASKS_FILE, 'w')
OpenForWrite ==
    /\ pc = "saving"
    /\ pc' = "writing"
    /\ file' = open_w(file)
    /\ UNCHANGED <<tasks, clock, maxReturned, last>>
    /\ UNCHANGED peer

\* save_tasks: json.dump has written everything, the method returns
DumpReturns ==
    /\ pc = "writing"
    /\ pc' = "live"
    /\ file' = save_tasks(tasks)
    /\ last' = [last EXCEPT !.saved = TRUE, !.retOk = TRUE]
    /\ UNCHANGED <<tasks, clock, maxReturned>>
    /\ UNCHANGED peer

\* The process stops inside a method (it is killed, or open or json.dump
\* raises and the process exits): its memory is gone, the file stays as it is
Stop ==
    /\ pc \in {"saving", "writing"}
    /\ pc' = "none"
    /\ tasks' = EmptyDict
    /\ maxReturned' = 0
    /\ last' = [last EXCEPT !.op = "crash"]
    /\ UNCHANGED <<file, clock>>
    /\ UNCHANGED peer

NextCrash ==
    \/ NewTracker
    \/ Exit
    \/ \E c \in MethodCalls : MethodReachesSave(c)
    \/ OpenForWrite
    \/ DumpReturns
    \/ Stop

\* The store with save_tasks followed step by step and processes that can stop
SpecCrash == Init /\ [][NextCrash]_vars

----------------------------------------------------------------------------
\* Two processes on one tasks.json.  The first is the TaskTracker of the
\* actions above; the second constructs its own TaskTracker (PeerLoad), calls
\* one mutating method on it (PeerRuns) and ends (PeerExit).  Nothing in the
\* code keeps the two apart: each reads the file once, in __init__, and each
\* save_tasks writes the writer's own self.tasks over whatever is there.

\* tracker = TaskTracker() in the second process
PeerLoad ==
    /\ peer.pc = "none"
    /\ ~load_raises(file)
    /\ peer' = [pc |-> "loaded", tasks |-> load_tasks(file),
                raced |-> pc = "live" /\ maxReturned = 0]
    /\ last' = Call("peer-new", 0, "")
    /\ UNCHANGED <<file, tasks, pc, clock, maxReturned>>

\* The second process calls one mutating method on its own tracker
PeerRuns(c) ==
    /\ peer.pc = "loaded"
    /\ Method(peer.tasks, c.op, c.id, c.arg, clock).retId <= MaxId
    /\ \E now \in Readings(c.op # "delete") :
          LET r == Method(peer.tasks, c.op, c.id, c.arg, now) IN
          /\ peer' = [peer EXCEPT !.pc = "done", !.tasks = r.tasks]
          /\ file' = FileAfter(file, r)
          /\ clock' = now
          /\ last' = [Outcome("peer", c.id, c.arg, r) EXCEPT !.msg = c.op]
    /\ UNCHANGED <<tasks, pc, maxReturned>>

\* The second process ends
PeerExit ==
    /\ peer.pc = "done"
    /\ peer' = NoPeer
    /\ last' = Call("peer-exit", 0, "")
    /\ UNCHANGED <<file, tasks, pc, clock, maxReturned>>

\* The calls the second process chooses from: the two that change which
\* tasks the collection holds
PeerCalls == {c \in MethodCalls : c.op \in {"add", "delete"}}

NextRace ==
    \/ NewTracker
    \/ Exit
    \/ \E description \in Descriptions : AddTask(description)
    \/ \E task_id \in IdArgs : DeleteTask(task_id)
    \/ PeerLoad
    \/ \E c \in PeerCalls : PeerRuns(c)
    \/ PeerExit

\* Two processes sharing the file
SpecRace == Init /\ [][NextRace]_vars

----------------------------------------------------------------------------
\* What the claims speak of

\* The ids of the tasks a dict holds (their id fields)
Ids(d) == {d[i].v.id : i \in DOMAIN d}

\* The ids of the tasks the file holds
FileIds(f) == {f.content[i].v.id : i \in DOMAIN f.content}

\* The tasks of a dict that carry the id n
WithIdN(d, n) == {i \in DOMAIN d : d[i].v.id = n}

MutatingOps == {"add", "update", "delete", "mark"}

----------------------------------------------------------------------------
\* C1: within one store, every id add_task returns is strictly greater than
\* every id add_task returned before on that store, deletions included.
C1_AddedIdsIncrease ==
    [][(last'.op = "add" /\ last'.exc = "none") => last'.retId > maxReturned]_vars

\* C2: add_task never fails: whenever it is called it returns a new positive
\* id and has saved the collection, also on a tracker that loaded a file an
\* earlier process wrote.
C2_AddNeverFails ==
    last.op = "add" => (last.exc = "none" /\ last.retId > 0 /\ last.saved)

\* C3: save_tasks followed by load_tasks gives back the collection that was
\* saved: the same keys in the same order with the same tasks.
C3_RoundTrip ==
    pc = "live" => load_tasks(save_tasks(tasks)) = tasks

\* C4: every key of the task mapping equals the id field of the task under it.
C4_KeyIsId ==
    \A i \in DOMAIN tasks : tasks[i].k = IntKey(tasks[i].v.id)

\* C5: a run of main() with update, delete, mark-in-progress or mark-done and
\* the id of a task that is in the file finds the task: the store method
\* returns True and the file is rewritten.
C5_LaterInvocationFindsTask ==
    [][(last'.op = "main" /\ last'.id \in FileIds(file))
          => (last'.retOk /\ last'.saved /\ last'.msg # "not found")]_vars

\* C6: add_task returns 1 on an empty store and otherwise the largest id
\* present plus 1.
C6_AddReturnsMaxPlusOne ==
    [][last'.op = "add"
          => (last'.exc = "none" /\ last'.retId = MaxN(Ids(tasks)) + 1)]_vars

\* C7: after add_task(d) returned n the collection holds exactly one task with
\* id n, that task has description d, status todo and createdAt = updatedAt,
\* and every entry that was there before the call is there unchanged.
C7_AddInsertsOneTask ==
    [][(last'.op = "add" /\ last'.exc = "none") =>
          /\ Cardinality(WithIdN(tasks', last'.retId)) = 1
          /\ \A i \in WithIdN(tasks', last'.retId) :
                /\ tasks'[i].k = IntKey(last'.retId)
                /\ tasks'[i].v.description = last'.arg
                /\ tasks'[i].v.status = "todo"
                /\ tasks'[i].v.createdAt = tasks'[i].v.updatedAt
          /\ Len(tasks') = Len(tasks) + 1
          /\ \A i \in DOMAIN tasks : tasks'[i] = tasks[i]]_vars

\* C7's case: add_task returned on a store that already held a task
C7_Witness ==
    last.op = "add" /\ last.exc = "none" /\ Len(tasks) = 2

\* C8: update_task, delete_task and mark_task_status with an id no task of the
\* store carries return False, leave the collection and the file as they were
\* and do not write.
C8_AbsentIdChangesNothing ==
    [][(last'.op \in {"update", "delete", "mark"} /\ last'.id \notin Ids(tasks))
          => (~last'.retOk /\ ~last'.saved /\ tasks' = tasks /\ file' = file)]_vars

\* C8's case: a method was called with the id of a task that was added and
\* deleted, while another task is in the store
C8_Witness ==
    /\ last.op \in {"update", "delete", "mark"}
    /\ last.id \notin Ids(tasks)
    /\ last.id <= maxReturned
    /\ tasks # EmptyDict

\* C9: the status of every task, in memory and in the file, is one of todo,
\* in-progress, done; mark_task_status with another status returns False and
\* leaves the collection (status and updatedAt included) and the file alone.
C9_StatusStaysValid ==
    [][/\ \A task \in ValueSet(tasks') \cup ValueSet(file'.content) :
             task.status \in ValidStatuses
       /\ (last'.op = "mark" /\ last'.arg \notin ValidStatuses)
             => (~last'.retOk /\ ~last'.saved /\ tasks' = tasks /\ file' = file)]_vars

\* C9's case: mark_task_status was called with a status that is none of the
\* three on a task the store holds
C9_Witness ==
    /\ last.op = "mark"
    /\ last.arg = "bogus"
    /\ Has(tasks, IntKey(last.id))

\* C10: right after a mutating method returned success the file holds the
\* whole in-memory collection: the same tasks with the same field values.
C10_FileHoldsCollection ==
    (last.op \in MutatingOps /\ last.retOk) =>
        /\ file.kind = "json"
        /\ Values(file.content) = Values(tasks)

\* C10's case: a delete succeeded and left a task in the store
C10_Witness ==
    last.op = "delete" /\ last.retOk /\ tasks # EmptyDict

----------------------------------------------------------------------------
\* The entries of d other than those of the task with id n
Others(d, n) == SelectSeq(d, LAMBDA e : e.v.id # n)

\* The task with id n in d (for an id exactly one task carries)
TaskOf(d, n) == d[CHOOSE i \in DOMAIN d : d[i].v.id = n].v

\* C11: update_task(id, d) with the id of a task in the store returns True,
\* sets that task's description to d and its updatedAt to the clock's value,
\* and leaves its id, status and createdAt, the set of ids and every other
\* task as they were.
C11_UpdateChangesOnlyDescription ==
    [][(last'.op = "update" /\ last'.id \in Ids(tasks)) =>
          /\ last'.retOk
          /\ Ids(tasks') = Ids(tasks)
          /\ Others(tasks', last'.id) = Others(tasks, last'.id)
          /\ TaskOf(tasks', last'.id) =
                [TaskOf(tasks, last'.id) EXCEPT !.description = last'.arg,
                                                !.updatedAt = clock']]_vars

\* C12: delete_task(id) with the id of a task in the store returns True and
\* removes exactly that task from the collection and from the file; every
\* other task stays, unchanged.
C12_DeleteRemovesOneTask ==
    [][(last'.op = "delete" /\ last'.id \in Ids(tasks)) =>
          /\ last'.retOk
          /\ last'.id \notin Ids(tasks') \cup FileIds(file')
          /\ tasks' = Others(tasks, last'.id)
          /\ Values(file'.content) = Values(tasks')]_vars

\* C13: mark_task_status(id, s) with the id of a task in the store and s one
\* of todo, in-progress, done returns True and sets the status to s whatever
\* it was, changing only that task's status and updatedAt.
C13_MarkSetsAnyStatus ==
    [][(last'.op = "mark" /\ last'.id \in Ids(tasks)
          /\ last'.arg \in ValidStatuses) =>
          /\ last'.retOk
          /\ Others(tasks', last'.id) = Others(tasks, last'.id)
          /\ TaskOf(tasks', last'.id) =
                [TaskOf(tasks, last'.id) EXCEPT !.status = last'.arg,
                                                !.updatedAt = clock']]_vars

\* The elements of a sequence
Range(q) == {q[i] : i \in DOMAIN q}

\* C14: list_tasks(s) returns exactly the tasks whose status is s, each once;
\* list_tasks() returns every task; neither changes the collection or the file.
C14_ListReturnsMatchingTasks ==
    [][last'.op = "list" =>
          LET matching == IF last'.retOk
                          THEN {i \in DOMAIN tasks : tasks[i].v.status = last'.arg}
                          ELSE DOMAIN tasks
          IN /\ Range(last'.out) = {tasks[i].v : i \in matching}
             /\ Len(last'.out) = Cardinality(matching)
             /\ tasks' = tasks
             /\ file' = file]_vars

\* C14's case: a filtered listing of a store of mixed statuses returned some
\* of its tasks and not all
C14_Witness ==
    /\ last.op = "list"
    /\ last.retOk
    /\ last.out # << >>
    /\ Len(last.out) < Len(tasks)

\* C15: with a clock that does not go backwards, no call changes the
\* createdAt of a task, in memory or in the file; add_task sets it to the
\* clock's value; updatedAt is never before createdAt; and each successful
\* update or status change sets updatedAt to the clock's value at that call.
C15_Timestamps ==
    [][/\ clock' >= clock
       /\ \A t \in ValueSet(tasks') : t.updatedAt >= t.createdAt
       /\ \A t \in ValueSet(tasks), u \in ValueSet(tasks') :
             t.id = u.id => u.createdAt = t.createdAt
       /\ \A t \in ValueSet(file.content), u \in ValueSet(file'.content) :
             t.id = u.id => u.createdAt = t.createdAt
       /\ (last'.op = "add" /\ last'.exc = "none")
             => TaskOf(tasks', last'.retId).createdAt = clock'
       /\ (last'.op \in {"update", "mark"} /\ last'.retOk)
             => TaskOf(tasks', last'.id).updatedAt = clock']_vars

\* C15's case: an update or a status change came later than the task's creation
C15_Witness ==
    /\ last.op \in {"update", "mark"}
    /\ last.retOk
    /\ TaskOf(tasks, last.id).updatedAt > TaskOf(tasks, last.id).createdAt

\* C16: load_tasks gives an empty collection, without failing, when there is
\* no file and when the file's content is not valid structured data; it never
\* writes or removes the file.
C16_LoadRecovers ==
    [][last'.op = "new" =>
          /\ file' = file
          /\ file.kind # "json" =>
                (last'.exc = "none" /\ pc' = "live" /\ tasks' = EmptyDict)]_vars

----------------------------------------------------------------------------
\* The command lines C17 speaks of

IdCommands == {"update", "delete"} \cup MarkCommands
Commands == {"add", "list"} \cup IdCommands

NoCommand(argv) == Len(argv) < 2

UnknownCommand(argv) == Len(argv) >= 2 /\ lower(argv[2]) \notin Commands

MissingArgument(argv) ==
    /\ Len(argv) >= 2
    /\ \/ lower(argv[2]) = "add" /\ Len(argv) < 3
       \/ lower(argv[2]) = "update" /\ Len(argv) < 4
       \/ lower(argv[2]) \in {"delete"} \cup MarkCommands /\ Len(argv) < 3

\* An id command with all its arguments
HasIdArgument(argv) ==
    /\ Len(argv) >= 3
    /\ lower(argv[2]) \in IdCommands
    /\ ~MissingArgument(argv)

NonIntegerId(argv) == HasIdArgument(argv) /\ int(argv[3]).exc # "none"

\* The id is that of no task in the file the process has loaded
IdNotInFile(argv, f) ==
    /\ HasIdArgument(argv)
    /\ int(argv[3]).exc = "none"
    /\ ~load_raises(f)
    /\ int(argv[3]).val \notin FileIds(f)

\* C17: a run with no command, an unknown command, a missing argument or a
\* non-integer id exits non-zero and leaves the file as it was; an update,
\* delete or mark command whose id no task has prints "not found", exits 0
\* and leaves the file as it was.
C17_ExitStatus ==
    [][last'.op = "main" =>
          /\ (\/ NoCommand(last'.argv)
              \/ UnknownCommand(last'.argv)
              \/ MissingArgument(last'.argv)
              \/ NonIntegerId(last'.argv))
                => (last'.exit # 0 /\ file' = file)
          /\ IdNotInFile(last'.argv, file)
                => (last'.exit = 0 /\ last'.msg = "not found" /\ file' = file)]_vars

\* C17's case: an id command named an id that no task of a non-empty file has
C17_Witness ==
    /\ last.op = "main"
    /\ IdNotInFile(last.argv, file)
    /\ file.content # << >>
    /\ last.exit = 0

----------------------------------------------------------------------------
\* C18: when the process stops at any point of a mutating method, the file
\* still holds a complete collection, the one before the call or the one
\* after it, never a truncated or partial one.
C18_StopLeavesCompleteFile ==
    last.op = "crash" => (file = last.before \/ file.kind = "json")

\* C18, amended: the in-memory change is complete before the file is touched,
\* so a stop before save_tasks opens the file leaves the file as it was, and a
\* method that returns has written the whole collection; between open and the
\* end of json.dump the file is empty or truncated, and a stop there leaves it
\* so.
C18_StopLeavesOldOrTruncatedFile ==
    /\ pc = "saving" => file = last.before
    /\ pc = "writing" => file.kind = "invalid"
    /\ last.op = "crash" => (file = last.before \/ file.kind = "invalid")
    /\ (pc = "live" /\ last.op \in MutatingOps /\ last.saved)
          => (file.kind = "json" /\ Values(file.content) = Values(tasks))

\* C18's case: the process stopped inside save_tasks and the tasks the file
\* held before the call are lost
C18_Witness ==
    /\ last.op = "crash"
    /\ file.kind = "invalid"
    /\ last.before.kind = "json"
    /\ last.before.content # << >>

----------------------------------------------------------------------------
\* C19: of two processes that loaded the same file, whichever saves writes
\* exactly its own collection: after a save the file holds the saver's tasks
\* and nothing else, so a task the other process holds or has saved, and the
\* saver does not hold, is absent from the file (last save wins, no merge).
C19_LastSaveWins ==
    [][/\ (last'.op = "peer" /\ last'.saved) =>
            /\ file'.kind = "json"
            /\ Values(file'.content) = Values(peer'.tasks)
            /\ \A t \in (ValueSet(tasks) \cup ValueSet(file.content))
                           \ ValueSet(peer'.tasks) :
                  t \notin ValueSet(file'.content)
       /\ (last'.op \in MutatingOps /\ last'.saved) =>
            /\ file'.kind = "json"
            /\ Values(file'.content) = Values(tasks')
            /\ \A t \in (ValueSet(peer.tasks) \cup ValueSet(file.content))
                           \ ValueSet(tasks') :
                  t \notin ValueSet(file'.content)
      ]_vars

\* C19's case: the second process loaded while the first had loaded and not
\* yet saved, the first then saved a task, and the second has saved last: the
\* first process's task is not in the file
C19_Witness ==
    /\ last.op = "peer"
    /\ last.saved
    /\ peer.raced
    /\ pc = "live"
    /\ maxReturned > 0
    /\ \E t \in ValueSet(tasks) : t \notin ValueSet(file.content)

----------------------------------------------------------------------------
\* A mark-in-progress or mark-done command that names a task of the file
MarksTaskOfFile(argv, f) ==
    /\ HasIdArgument(argv)
    /\ lower(argv[2]) \in MarkCommands
    /\ int(argv[3]).exc = "none"
    /\ int(argv[3]).val \in FileIds(f)

\* C20: through the command line a task is todo only until its first mark
\* command: after a mark-in-progress or mark-done command that names a task
\* of the file, that task is no longer todo.
C20_TodoOnlyUntilFirstMark ==
    [][(last'.op = "main" /\ MarksTaskOfFile(last'.argv, file)) =>
          \A t \in ValueSet(file'.content) :
              t.id = int(last'.argv[3]).val => t.status # "todo"]_vars

====
